---- MODULE Spec2Model ----
(***************************************************************************)
(* Model of src/main.py: the Flask service with the routes /info and       *)
(* /download in front of the pytube resolver.                              *)
(*                                                                         *)
(* Strings that the code inspects character by character (urls, file       *)
(* names) are sequences of one-character strings.  A mime type is kept as  *)
(* the sequence of its '/'-separated segments.  JSON values are records    *)
(* [t, n, s] with the JSON type in t.                                      *)
(***************************************************************************)
EXTENDS Integers, Sequences, FiniteSets, TLC

\* ------------------------------------------------------------------ bounds
\* Longest stream list the resolver returns to /info.
MaxStreams == 2
\* Number of requests served one after the other in one behaviour.
MaxRequests == 2
\* Longest base name and longest extension of the file names given to
\* sanitize_filename in SpecSanitize.
MaxBase == 96
MaxExt == 12
\* Minutes the limiter's clock runs in SpecLimiter.
MaxMinutes == 2

\* --------------------------------------------------------------- constants
ALLOWED_EXTENSIONS == {"mp4", "webm", "mp3", "wav"}
MAX_DOWNLOAD_SIZE == 100 * 1024 * 1024

\* ------------------------------------------------------------ JSON values
JAbsent == [t |-> "absent", n |-> 0, s |-> <<>>]
JNull == [t |-> "null", n |-> 0, s |-> <<>>]
JBool(b) == [t |-> "bool", n |-> IF b THEN 1 ELSE 0, s |-> <<>>]
JInt(n) == [t |-> "int", n |-> n, s |-> <<>>]
\* the float n + 0.5
JFloat(n) == [t |-> "float", n |-> n, s |-> <<>>]
JStr(s) == [t |-> "str", n |-> 0, s |-> s]
JList == [t |-> "list", n |-> 0, s |-> <<>>]
JObj == [t |-> "object", n |-> 0, s |-> <<>>]

\* isinstance(v, str) and isinstance(v, int): in Python bool is a subclass
\* of int, and True == 1, False == 0.
IsInstanceStr(v) == v.t = "str"
IsInstanceInt(v) == v.t \in {"int", "bool"}

\* ---------------------------------------------------------------- strings
Whitespace == {" ", "\t", "\n"}

Max(S) == CHOOSE x \in S : \A y \in S : y <= x
Min(S) == CHOOSE x \in S : \A y \in S : x <= y

\* str.strip()
Strip(s) ==
    LET keep == {i \in 1..Len(s) : s[i] \notin Whitespace}
    IN  IF keep = {} THEN <<>> ELSE SubSeq(s, Min(keep), Max(keep))

\* the positions after literal lit matched at a position of P
AfterLit(s, P, lit) ==
    {i + Len(lit) : i \in {p \in P : p + Len(lit) - 1 <= Len(s)
                                      /\ SubSeq(s, p, p + Len(lit) - 1) = lit}}

L_http == <<"h", "t", "t", "p", ":", "/", "/">>
L_https == <<"h", "t", "t", "p", "s", ":", "/", "/">>
L_www == <<"w", "w", "w", ".">>
L_youtube == <<"y", "o", "u", "t", "u", "b", "e">>
L_youtu == <<"y", "o", "u", "t", "u">>
L_nocookie == L_youtube \o <<"-", "n", "o", "c", "o", "o", "k", "i", "e">>
L_com == <<"c", "o", "m">>
L_be == <<"b", "e">>
L_watch == <<"w", "a", "t", "c", "h", "?", "v", "=">>
L_embed == <<"e", "m", "b", "e", "d", "/">>
L_v == <<"v", "/">>
L_qv == <<"?", "v", "=">>

\* [^&=%\?]
IdChar(c) == c \notin {"&", "=", "%", "?"}

\* youtube_regex.match(url): the end positions of the prefixes of s the
\* regular expression matches, piece by piece.
RegexEnds(s) ==
    LET p0 == {1}
        p1 == p0 \cup AfterLit(s, p0, L_http) \cup AfterLit(s, p0, L_https)
        p2 == p1 \cup AfterLit(s, p1, L_www)
        p3 == AfterLit(s, p2, L_youtube) \cup AfterLit(s, p2, L_youtu)
                \cup AfterLit(s, p2, L_nocookie)
        p4 == AfterLit(s, p3, <<".">>)
        p5 == AfterLit(s, p4, L_com) \cup AfterLit(s, p4, L_be)
        p6 == AfterLit(s, p5, <<"/">>)
        \* .+\?v=  (. matches anything but a newline)
        any == {j + 3 : j \in {k \in 1..Len(s) :
                    /\ k + 2 <= Len(s)
                    /\ SubSeq(s, k, k + 2) = L_qv
                    /\ \E i \in p6 : i < k /\ \A m \in i..(k - 1) : s[m] # "\n"}}
        p7 == p6 \cup AfterLit(s, p6, L_watch) \cup AfterLit(s, p6, L_embed)
                 \cup AfterLit(s, p6, L_v) \cup any
    IN  {i + 11 : i \in {p \in p7 : p + 10 <= Len(s)
                                    /\ \A m \in p..(p + 10) : IdChar(s[m])}}

\* Python truth value of a JSON value ("not url" is ~Truthy(url)); JList and
\* JObj stand for a non-empty list and a non-empty object.
Truthy(v) ==
    CASE v.t \in {"null", "absent"} -> FALSE
      [] v.t = "str" -> v.s # <<>>
      [] v.t \in {"int", "bool"} -> v.n # 0
      [] OTHER -> TRUE

validate_youtube_url(url) ==
    IF ~Truthy(url) \/ ~IsInstanceStr(url)
    THEN FALSE
    ELSE RegexEnds(url.s) # {}

\* --------------------------------------------------------------- file names
UnsafeChars == {"<", ">", ":", "\"", "/", "\\", "|", "?", "*"}

\* re.sub(r'[<>:"/\\|?*]', '_', filename)
ReSub(s) == [i \in 1..Len(s) |-> IF s[i] \in UnsafeChars THEN "_" ELSE s[i]]

\* str.rfind(c), 1-based, 0 when c does not occur
RFind(s, c) ==
    LET at == {i \in 1..Len(s) : s[i] = c}
    IN  IF at = {} THEN 0 ELSE Max(at)

\* os.path.splitext: the extension starts at the last dot of the last path
\* component, unless only dots precede it there.
SplitAt(p) ==
    LET sepIndex == RFind(p, "/")
        dotIndex == RFind(p, ".")
    IN  IF dotIndex > sepIndex
           /\ \E k \in (sepIndex + 1)..(dotIndex - 1) : p[k] # "."
        THEN dotIndex
        ELSE Len(p) + 1

splitext(p) ==
    [name |-> SubSeq(p, 1, SplitAt(p) - 1), ext |-> SubSeq(p, SplitAt(p), Len(p))]

\* sanitize_filename keeping 95 characters of the base name
sanitize_filename_Keep95(filename) ==
    LET f == ReSub(filename)
        parts == splitext(f)
    IN  IF Len(f) > 100
        THEN SubSeq(parts.name, 1, Min({95, Len(parts.name)})) \o parts.ext
        ELSE f

sanitize_filename(filename) ==
    LET f == ReSub(filename)
        parts == splitext(f)
    IN  IF Len(f) > 100
        THEN SubSeq(parts.name, 1, Min({90, Len(parts.name)})) \o parts.ext
        ELSE f

\* ------------------------------------------------------------- the inputs
Rep(c, n) == [i \in 1..n |-> c]

VideoId == <<"a", "b", "c", "d", "e", "f", "g", "h", "i", "j", "k">>
UrlWatch == L_https \o L_www \o L_youtube \o <<".">> \o L_com \o <<"/">> \o L_watch \o VideoId
UrlShort == L_https \o L_youtu \o <<".">> \o L_be \o <<"/">> \o VideoId
UrlEmbed == L_youtube \o <<".">> \o L_com \o <<"/">> \o L_embed \o VideoId
UrlPadded == <<" ">> \o UrlShort \o <<"\n">>
\* passes the regular expression, though no video id is in it
UrlBangs == L_https \o L_youtube \o <<".">> \o L_com \o <<"/">> \o Rep("!", 11)
UrlPlain == <<"n", "o", "t", " ", "a", " ", "u", "r", "l">>
UrlOtherHost == L_https \o <<"v", "i", "m", "e", "o", ".">> \o L_com \o <<"/">> \o VideoId
UrlShortId == L_https \o L_youtu \o <<".">> \o L_be \o <<"/">> \o <<"a", "b", "c">>
UrlBlank == <<" ", " ">>

UrlStrings == {UrlWatch, UrlShort, UrlEmbed, UrlPadded, UrlBangs, UrlPlain,
               UrlOtherHost, UrlShortId, UrlBlank, <<>>}

\* the JSON values of the "url" and "itag" members ("absent": no such member)
UrlValues == {JStr(u) : u \in UrlStrings} \cup {JAbsent, JNull, JInt(5), JList}
ItagValues == {JAbsent, JNull, JInt(18), JInt(1), JInt(0), JInt(0 - 1), JBool(TRUE),
               JBool(FALSE), JFloat(18), JStr(<<"1", "8">>), JList, JObj}

\* the texts of the BadRequest that request.get_json() raises on a body it
\* cannot parse: werkzeug's description, or the JSON decoder's message
DecoderTexts == {"The browser (or proxy) sent a request that this server could not understand.",
                 "Failed to decode JSON object: Expecting value: line 1 column 9 (char 8)",
                 "Failed to decode JSON object: Unterminated string starting at: line 1 column 2 (char 1)"}

\* A request body: not JSON by its content type, unparsable JSON, or a JSON
\* value: an object with its url and itag members, null, or the list
\* ["url", "itag"].
Bodies ==
    {[kind |-> "nojson", data |-> "none", url |-> JAbsent, itag |-> JAbsent, text |-> ""]}
    \cup {[kind |-> "badjson", data |-> "none", url |-> JAbsent, itag |-> JAbsent, text |-> t] :
              t \in DecoderTexts}
    \cup {[kind |-> "json", data |-> "object", url |-> u, itag |-> i, text |-> ""] :
              u \in UrlValues, i \in ItagValues}
    \cup {[kind |-> "json", data |-> d, url |-> JAbsent, itag |-> JAbsent, text |-> ""] :
              d \in {"null", "list"}}

\* Streams as the resolver describes them.  mime: the '/'-separated segments
\* of mime_type, <<>> for None; size: <<n>> for filesize n, <<>> for None;
\* sizeErr: reading filesize raises; res: resolution, "" for None.
Mimes == {<<>>, <<"video", "mp4">>, <<"video", "webm">>, <<"video", "3gpp">>,
          <<"video", "MP4">>, <<"audio", "mp4">>}
Sizes == {<<>>, <<0>>, <<1000>>, <<MAX_DOWNLOAD_SIZE>>, <<MAX_DOWNLOAD_SIZE + 1>>,
          <<2 * MAX_DOWNLOAD_SIZE>>}
Stream(it, m, sz, err) ==
    [itag |-> it, mime |-> m, size |-> sz, sizeErr |-> err,
     res |-> IF m # <<>> /\ m[1] = "audio" THEN "" ELSE "360p"]
NoStream == Stream(0, <<>>, <<>>, FALSE)

\* what yt.streams.filter(progressive=True) yields to /info
InfoStreamPool ==
    {Stream(18, m, <<1000>>, FALSE) : m \in Mimes}
    \cup {Stream(22, <<"video", "mp4">>, <<>>, FALSE),
          Stream(22, <<"video", "mp4">>, <<1000>>, TRUE),
          Stream(22, <<"video", "3gpp">>, <<1000>>, TRUE)}
RECURSIVE SeqsUpTo(_, _)
SeqsUpTo(S, n) ==
    IF n = 0 THEN {<<>>}
    ELSE LET shorter == SeqsUpTo(S, n - 1)
         IN  shorter \cup {Append(q, x) : q \in {r \in shorter : Len(r) = n - 1}, x \in S}
InfoStreamLists == SeqsUpTo(InfoStreamPool, MaxStreams)

\* what yt.streams.get_by_itag(itag) returns to /download, when it returns a stream
DownloadStreamPool ==
    {Stream(18, m, sz, FALSE) : m \in Mimes, sz \in Sizes}
    \cup {Stream(18, m, <<1000>>, TRUE) : m \in {<<"video", "mp4">>, <<"video", "3gpp">>}}

\* the names of the files stream.download() writes
LongTitle == Rep("a", 120) \o <<".", "m", "p", "4">>
DownloadNames == {<<"v", ".", "m", "p", "4">>, <<"a", ":", "b", "?", ".", "m", "p", "4">>, LongTitle}

\* how a call of the resolver ends
ResolverOutcomes == {"ok", "VideoUnavailable", "RegexMatchError", "OtherError"}

\* ------------------------------------------------------------------ state
VARIABLES
    pc,         \* where the request being served is: idle, info_resolve, dl_resolve,
                \* dl_mkdtemp, dl_download, dl_send, dl_deliver, done
    route,      \* "info" or "download" ("none" before the first request)
    body,       \* the request's body
    url,        \* url after strip(), once it is validated
    itag,       \* data['itag']
    calls,      \* the calls of the resolver made for this request
    res,        \* what the resolver answered
    resp,       \* the response
    log,        \* what the request wrote to the server's log
    tempDir,    \* the directory mkdtemp() gave this request, 0 for none
    filePath,   \* the base name of the file stream.download() wrote
    tempDirs,   \* the temporary directories that exist
    served,     \* the number of requests taken so far
    fnIn,       \* SpecSanitize: the file name given to sanitize_filename
    fnOut,      \* SpecSanitize: its result
    fnDone,     \* SpecSanitize: whether it was applied
    now,        \* SpecLimiter: the clock, in minutes
    hits,       \* SpecLimiter: the limiter's counters, by limit
    admitted,   \* SpecLimiter: the route the client calls, and the number of its
                \* requests passed to the handler in the current hour
    verdict     \* SpecLimiter: the limiter's answer to the last request

pipeVars == <<pc, route, body, url, itag, calls, res, resp, log, tempDir, filePath,
              tempDirs, served>>
sanVars == <<fnIn, fnOut, fnDone>>
limVars == <<now, hits, admitted, verdict>>
vars == <<pipeVars, sanVars, limVars>>

\* ------------------------------------------------------------- responses
NoBody == [kind |-> "none", data |-> "none", url |-> JAbsent, itag |-> JAbsent, text |-> ""]
NoResp == [status |-> 0, error |-> <<>>, formats |-> <<>>, filename |-> <<>>,
           mimetype |-> <<>>, sent |-> "no"]
\* jsonify({'error': err}), status
ErrorResp(status, err) == [NoResp EXCEPT !.status = status, !.error = err, !.sent = "full"]
NoRes == [outcome |-> "none", streams |-> <<>>, stream |-> NoStream, found |-> FALSE,
          attrsRaise |-> FALSE]

\* str(e) of a werkzeug BadRequest with description text
StrBadRequest(text) == <<"400 Bad Request: ", text>>
\* str(e) of the exceptions the resolver raises
ResolverText(outcome) ==
    CASE outcome = "VideoUnavailable" -> "abcdefghijk is unavailable"
      [] outcome = "RegexMatchError" -> "regex_search: could not find match for (?:v=|\\/)([0-9A-Za-z_-]{11}).*"
      [] OTHER -> "HTTP Error 410: Gone"

\* ------------------------------------------------- reading the request body
\* 'k' in data
HasKey(b, k) ==
    CASE b.data = "object" -> (IF k = "url" THEN b.url ELSE b.itag) # JAbsent
      [] b.data = "list" -> TRUE
      [] OTHER -> FALSE
\* not data
DataFalsy(b) ==
    b.data = "null" \/ (b.data = "object" /\ b.url = JAbsent /\ b.itag = JAbsent)

\* The handlers' first lines, to url = data['url'].strip(): what is raised,
\* if anything, and the stripped url.
ReadBody(b, keys, missingText) ==
    CASE b.kind = "nojson" ->
            [raised |-> "BadRequest", text |-> "Request must be JSON", url |-> JAbsent]
      [] b.kind = "badjson" ->
            [raised |-> "BadRequest", text |-> b.text, url |-> JAbsent]
      [] b.kind = "json" /\ (DataFalsy(b) \/ \E k \in keys : ~HasKey(b, k)) ->
            [raised |-> "BadRequest", text |-> missingText, url |-> JAbsent]
      [] b.kind = "json" /\ b.data = "list" ->
            [raised |-> "Exception",
             text |-> "TypeError: list indices must be integers or slices, not str",
             url |-> JAbsent]
      [] b.kind = "json" /\ ~IsInstanceStr(b.url) ->
            [raised |-> "Exception",
             text |-> "AttributeError: object has no attribute 'strip'",
             url |-> JAbsent]
      [] OTHER ->
            [raised |-> "no", text |-> "", url |-> JStr(Strip(b.url.s))]

\* ------------------------------------------------------------------ /info
\* FileType taking the first segment, split('/')[0]
FileType_First(mime) ==
    IF mime # <<>> /\ mime # <<"">> THEN mime[1] ELSE "unknown"

\* stream.mime_type.split('/')[-1] if stream.mime_type else 'unknown'
FileType(mime) ==
    IF mime # <<>> /\ mime # <<"">> THEN mime[Len(mime)] ELSE "unknown"

TypeAllowed(ft) == ft \in ALLOWED_EXTENSIONS

FormatOf(st) ==
    [quality |-> IF st.res # "" THEN st.res ELSE "audio only",
     type |-> FileType(st.mime), itag |-> st.itag, filesize |-> st.size]

\* the loop over yt.streams.filter(progressive=True): the formats collected,
\* and whether reading a stream raised
RECURSIVE CollectFormats(_, _, _)
CollectFormats(streams, i, acc) ==
    IF i > Len(streams) THEN [raised |-> FALSE, formats |-> acc]
    ELSE IF TypeAllowed(FileType(streams[i].mime))
         THEN IF streams[i].sizeErr
              THEN [raised |-> TRUE, formats |-> acc]
              ELSE CollectFormats(streams, i + 1, Append(acc, FormatOf(streams[i])))
         ELSE CollectFormats(streams, i + 1, acc)

\* get_video_info up to the url check: the response, or NoResp to go on
InfoCheck(b) ==
    LET r == ReadBody(b, {"url"}, "Missing 'url' parameter")
    IN  CASE r.raised = "BadRequest" -> ErrorResp(400, StrBadRequest(r.text))
          [] r.raised = "Exception" -> ErrorResp(500, <<"Internal server error">>)
          [] ~validate_youtube_url(r.url) -> ErrorResp(400, <<"Invalid YouTube URL">>)
          [] OTHER -> NoResp

InfoLog(b) ==
    LET r == ReadBody(b, {"url"}, "Missing 'url' parameter")
    IN  IF r.raised = "Exception"
        THEN <<(<<"Unexpected error in get_video_info: ", r.text>>)>>
        ELSE <<>>

\* get_video_info from YouTube(url) on
InfoAnswer(outcome, streams, attrsRaise) ==
    LET c == CollectFormats(streams, 1, <<>>)
    IN  CASE outcome = "VideoUnavailable" ->
                ErrorResp(404, <<"Video is unavailable or private">>)
          [] outcome = "RegexMatchError" ->
                ErrorResp(400, <<"Invalid YouTube URL format">>)
          [] outcome = "OtherError" -> ErrorResp(500, <<"Failed to access video">>)
          [] c.raised -> ErrorResp(500, <<"Failed to retrieve video formats">>)
          [] c.formats = <<>> -> ErrorResp(404, <<"No downloadable formats available">>)
          [] attrsRaise -> ErrorResp(500, <<"Internal server error">>)
          [] OTHER -> [NoResp EXCEPT !.status = 200, !.formats = c.formats, !.sent = "full"]

InfoAnswerLog(outcome, streams, attrsRaise) ==
    LET c == CollectFormats(streams, 1, <<>>)
    IN  CASE outcome \in {"VideoUnavailable", "RegexMatchError"} -> <<>>
          [] outcome = "OtherError" ->
                <<(<<"Error accessing video: ", ResolverText(outcome)>>)>>
          [] c.raised -> <<(<<"Error getting video formats: ", ResolverText("OtherError")>>)>>
          [] c.formats # <<>> /\ attrsRaise ->
                <<(<<"Unexpected error in get_video_info: ", ResolverText("OtherError")>>)>>
          [] OTHER -> <<>>

YouTubeCall(u) == [fn |-> "YouTube", url |-> u, itag |-> JAbsent]
GetByItagCall(u, i) == [fn |-> "get_by_itag", url |-> u, itag |-> i]

CanTake == pc = "idle" /\ served < MaxRequests

\* a request of /info arrives: lines 88-101
InfoRequest ==
    /\ CanTake
    /\ \E b \in {x \in Bodies : x.itag = JAbsent} :
          /\ route' = "info"
          /\ body' = b
          /\ served' = served + 1
          /\ calls' = <<>>
          /\ res' = NoRes
          /\ itag' = JAbsent
          /\ tempDir' = 0
          /\ filePath' = <<>>
          /\ log' = InfoLog(b)
          /\ resp' = InfoCheck(b)
          /\ IF InfoCheck(b) = NoResp
             THEN pc' = "info_resolve" /\ url' = ReadBody(b, {"url"}, "").url.s
             ELSE pc' = "done" /\ url' = <<>>
    /\ UNCHANGED <<tempDirs, sanVars, limVars>>

\* lines 103-143: the resolver is asked, and answers
InfoResolve ==
    /\ pc = "info_resolve"
    /\ \E outcome \in ResolverOutcomes, streams \in InfoStreamLists, attrsRaise \in BOOLEAN :
          /\ outcome # "ok" => streams = <<>> /\ ~attrsRaise
          /\ calls' = Append(calls, YouTubeCall(url))
          /\ res' = [NoRes EXCEPT !.outcome = outcome, !.streams = streams,
                                  !.attrsRaise = attrsRaise]
          /\ resp' = InfoAnswer(outcome, streams, attrsRaise)
          /\ log' = log \o InfoAnswerLog(outcome, streams, attrsRaise)
    /\ pc' = "done"
    /\ UNCHANGED <<route, body, url, itag, tempDir, filePath, tempDirs, served,
                   sanVars, limVars>>

\* -------------------------------------------------------------- /download
\* not isinstance(itag, int) or itag <= 0, negated
ItagAccepted(v) == IsInstanceInt(v) /\ ~(v.n <= 0)

MissingBoth == "Missing 'url' or 'itag' parameter"

\* download_video up to the itag check: the response, or NoResp to go on
DownloadCheck(b) ==
    LET r == ReadBody(b, {"url", "itag"}, MissingBoth)
    IN  CASE r.raised = "BadRequest" -> ErrorResp(400, StrBadRequest(r.text))
          [] r.raised = "Exception" -> ErrorResp(500, <<"Internal server error">>)
          [] ~validate_youtube_url(r.url) -> ErrorResp(400, <<"Invalid YouTube URL">>)
          [] ~ItagAccepted(b.itag) -> ErrorResp(400, <<"Invalid itag parameter">>)
          [] OTHER -> NoResp

DownloadLog(b) ==
    LET r == ReadBody(b, {"url", "itag"}, MissingBoth)
    IN  IF r.raised = "Exception"
        THEN <<(<<"Unexpected error in download_video: ", r.text>>)>>
        ELSE <<>>

\* stream.filesize and stream.filesize > MAX_DOWNLOAD_SIZE
TooLarge(st) == st.size # <<>> /\ st.size[1] # 0 /\ st.size[1] > MAX_DOWNLOAD_SIZE

\* DownloadPolicy with the type checked before the size is read
DownloadPolicy_TypeFirst(found, st) ==
    CASE ~found -> ErrorResp(404, <<"Requested format not available">>)
      [] ~TypeAllowed(FileType(st.mime)) -> ErrorResp(400, <<"File type not allowed">>)
      [] st.sizeErr -> ErrorResp(500, <<"Internal server error">>)
      [] TooLarge(st) -> ErrorResp(413, <<"File too large for download">>)
      [] OTHER -> NoResp

\* lines 185-195 on the stream get_by_itag returned: the response, or NoResp
\* to go on to the download
DownloadPolicy(found, st) ==
    CASE ~found -> ErrorResp(404, <<"Requested format not available">>)
      [] st.sizeErr -> ErrorResp(500, <<"Internal server error">>)
      [] TooLarge(st) -> ErrorResp(413, <<"File too large for download">>)
      [] ~TypeAllowed(FileType(st.mime)) -> ErrorResp(400, <<"File type not allowed">>)
      [] OTHER -> NoResp

\* lines 175-195
DownloadAnswer(outcome, found, st) ==
    CASE outcome = "VideoUnavailable" ->
            ErrorResp(404, <<"Video is unavailable or private">>)
      [] outcome \in {"RegexMatchError", "OtherError"} ->
            ErrorResp(500, <<"Failed to access video">>)
      [] OTHER -> DownloadPolicy(found, st)

DownloadAnswerLog(outcome, found, st) ==
    CASE outcome \in {"RegexMatchError", "OtherError"} ->
            <<(<<"Error accessing video: ", ResolverText(outcome)>>)>>
      [] outcome = "ok" /\ found /\ st.sizeErr ->
            <<(<<"Unexpected error in download_video: ", ResolverText("OtherError")>>)>>
      [] OTHER -> <<>>

\* a request of /download arrives: lines 156-173
DownloadRequest ==
    /\ CanTake
    /\ \E b \in Bodies :
          /\ route' = "download"
          /\ body' = b
          /\ served' = served + 1
          /\ calls' = <<>>
          /\ res' = NoRes
          /\ tempDir' = 0
          /\ filePath' = <<>>
          /\ log' = DownloadLog(b)
          /\ resp' = DownloadCheck(b)
          /\ IF DownloadCheck(b) = NoResp
             THEN /\ pc' = "dl_resolve"
                  /\ url' = ReadBody(b, {"url", "itag"}, MissingBoth).url.s
                  /\ itag' = b.itag
             ELSE pc' = "done" /\ url' = <<>> /\ itag' = JAbsent
    /\ UNCHANGED <<tempDirs, sanVars, limVars>>

\* lines 175-195: YouTube(url) and yt.streams.get_by_itag(itag), then the
\* checks of the stream.  YouTube(url) raises RegexMatchError, yt.streams
\* raises VideoUnavailable; another failure comes before get_by_itag is
\* called or in it.
DownloadResolve ==
    /\ pc = "dl_resolve"
    /\ \E outcome \in ResolverOutcomes, found \in BOOLEAN,
          st \in DownloadStreamPool \cup {NoStream}, reached \in BOOLEAN :
          /\ found <=> (outcome = "ok" /\ st # NoStream)
          /\ outcome # "ok" => st = NoStream
          /\ outcome = "ok" => reached
          /\ outcome \in {"VideoUnavailable", "RegexMatchError"} => ~reached
          /\ calls' = calls \o <<YouTubeCall(url)>>
                         \o (IF reached THEN <<GetByItagCall(url, itag)>> ELSE <<>>)
          /\ res' = [NoRes EXCEPT !.outcome = outcome, !.stream = st, !.found = found]
          /\ resp' = DownloadAnswer(outcome, found, st)
          /\ log' = log \o DownloadAnswerLog(outcome, found, st)
          /\ pc' = IF DownloadAnswer(outcome, found, st) = NoResp
                   THEN "dl_mkdtemp" ELSE "done"
    /\ UNCHANGED <<route, body, url, itag, tempDir, filePath, tempDirs, served,
                   sanVars, limVars>>

\* line 198: temp_dir = tempfile.mkdtemp(); an OSError goes to the outer handler
DownloadMkdtemp ==
    /\ pc = "dl_mkdtemp"
    /\ \/ /\ tempDir' = served
          /\ tempDirs' = tempDirs \cup {served}
          /\ pc' = "dl_download"
          /\ UNCHANGED <<resp, log>>
       \/ /\ resp' = ErrorResp(500, <<"Internal server error">>)
          /\ log' = Append(log, <<"Unexpected error in download_video: ",
                                  "OSError: No space left on device">>)
          /\ pc' = "done"
          /\ UNCHANGED <<tempDir, tempDirs>>
    /\ UNCHANGED <<route, body, url, itag, calls, res, filePath, served, sanVars, limVars>>

TempPath(d) == <<"/", "t", "m", "p", "/">> \o Rep("d", d)
\* os.path.basename
Basename(p) == SubSeq(p, RFind(p, "/") + 1, Len(p))

DownloadFailed(text) ==
    /\ resp' = ErrorResp(500, <<"Failed to download video">>)
    /\ log' = Append(log, <<"Error downloading video: ", text>>)
    /\ pc' = "done"

\* line 202: file_path = stream.download(output_path=temp_dir)
DownloadMaterialize ==
    /\ pc = "dl_download"
    /\ \/ \E name \in DownloadNames :
             /\ filePath' = TempPath(tempDir) \o <<"/">> \o name
             /\ pc' = "dl_send"
             /\ UNCHANGED <<resp, log>>
       \/ DownloadFailed("IncompleteRead(5120 bytes read)") /\ UNCHANGED filePath
    /\ UNCHANGED <<route, body, url, itag, calls, res, tempDir, tempDirs, served,
                   sanVars, limVars>>

\* lines 204-215: the file name is sanitized and send_file builds the response
DownloadSend ==
    /\ pc = "dl_send"
    /\ \/ /\ resp' = [NoResp EXCEPT !.status = 200,
                                     !.filename = sanitize_filename(Basename(filePath)),
                                     !.mimetype = res.stream.mime]
          /\ log' = Append(log, <<"Downloaded video">>)
          /\ pc' = "dl_deliver"
       \/ DownloadFailed("FileNotFoundError")
    /\ UNCHANGED <<route, body, url, itag, calls, res, tempDir, filePath, tempDirs, served,
                   sanVars, limVars>>

\* the body is sent: to its end, or until the client disconnects
Deliver ==
    /\ pc = "dl_deliver"
    /\ \E how \in {"full", "partial"} : resp' = [resp EXCEPT !.sent = how]
    /\ pc' = "done"
    /\ UNCHANGED <<route, body, url, itag, calls, res, log, tempDir, filePath, tempDirs,
                   served, sanVars, limVars>>

\* cleanup_temp_files(error): pass
cleanup_temp_files(dirs) == dirs

\* the request ends: the application context is torn down, and the worker
\* is free for the next request
Teardown ==
    /\ pc = "done"
    /\ tempDirs' = cleanup_temp_files(tempDirs)
    /\ pc' = "idle"
    /\ route' = "none"
    /\ body' = NoBody
    /\ url' = <<>>
    /\ itag' = JAbsent
    /\ calls' = <<>>
    /\ res' = NoRes
    /\ resp' = NoResp
    /\ log' = <<>>
    /\ tempDir' = 0
    /\ filePath' = <<>>
    /\ UNCHANGED <<served, sanVars, limVars>>

\* ------------------------------------------------------- sanitize_filename
\* File names: an optional prefix with unsafe characters, a base name, and an
\* extension of e characters, its dot included.
FileNames ==
    {pre \o Rep("a", b) \o (IF e = 0 THEN <<>> ELSE <<".">> \o Rep("x", e - 1)) :
        pre \in {<<>>, <<"<", "/">>}, b \in 0..MaxBase, e \in 0..MaxExt}

Sanitize ==
    /\ ~fnDone
    /\ fnOut' = sanitize_filename(fnIn)
    /\ fnDone' = TRUE
    /\ UNCHANGED <<fnIn, pipeVars, limVars>>

\* ------------------------------------------------------------ the limiter
\* Limits as flask_limiter keeps them: amount requests per window of per
\* minutes, for each client address and route, in fixed windows; a route's
\* limits are tried from the shortest window on, and the first one exceeded
\* rejects the request.  A route decorated with limiter.limit(...) has the
\* decorator's limits instead of default_limits (override_defaults is True
\* unless the decorator says otherwise); /health has no decorator.
default_limits == <<[amount |-> 50, per |-> 60], [amount |-> 200, per |-> 24 * 60]>>

RouteLimits(r) ==
    CASE r = "info" -> <<[amount |-> 30, per |-> 1]>>
      [] r = "download" -> <<[amount |-> 10, per |-> 1]>>
      [] OTHER -> default_limits

Windows == {1, 60, 24 * 60}

\* the counter of the window of per minutes, as of now
Count(h, per) == IF h[per].win = now \div per THEN h[per].n ELSE 0

\* one request: each limit's counter is incremented and compared in turn
RECURSIVE HitAll(_, _, _)
HitAll(lims, i, h) ==
    IF i > Len(lims) THEN [h |-> h, ok |-> TRUE]
    ELSE LET c == Count(h, lims[i].per) + 1
             h2 == [h EXCEPT ![lims[i].per] = [win |-> now \div lims[i].per, n |-> c]]
         IN  IF c <= lims[i].amount THEN HitAll(lims, i + 1, h2)
             ELSE [h |-> h2, ok |-> FALSE]

\* a request of the client reaches the limiter, which passes it to the
\* handler or rejects it with 429 (at most one rejection per window is
\* followed here)
LimiterHit ==
    /\ admitted.route # "none"
    /\ \A i \in 1..Len(RouteLimits(admitted.route)) :
          Count(hits, RouteLimits(admitted.route)[i].per) <= RouteLimits(admitted.route)[i].amount
    /\ LET r == HitAll(RouteLimits(admitted.route), 1, hits)
       IN  /\ hits' = r.h
           /\ verdict' = IF r.ok THEN "handler" ELSE "429"
           /\ admitted' = [admitted EXCEPT !.n = IF r.ok THEN @ + 1 ELSE @]
    /\ UNCHANGED <<now, pipeVars, sanVars>>

\* a minute passes
Tick ==
    /\ admitted.route # "none"
    /\ now < MaxMinutes
    /\ now' = now + 1
    /\ admitted' = IF (now + 1) \div 60 # now \div 60 THEN [admitted EXCEPT !.n = 0]
                   ELSE admitted
    /\ verdict' = "none"
    /\ UNCHANGED <<hits, pipeVars, sanVars>>

\* ------------------------------------------------------- specifications
InitPipe ==
    /\ pc = "idle"
    /\ route = "none"
    /\ body = NoBody
    /\ url = <<>>
    /\ itag = JAbsent
    /\ calls = <<>>
    /\ res = NoRes
    /\ resp = NoResp
    /\ log = <<>>
    /\ tempDir = 0
    /\ filePath = <<>>
    /\ tempDirs = {}
    /\ served = 0

InitSanIdle == fnIn = <<>> /\ fnOut = <<>> /\ fnDone = TRUE

InitLimIdle ==
    /\ now = 0
    /\ hits = [w \in Windows |-> [win |-> 0, n |-> 0]]
    /\ admitted = [route |-> "none", n |-> 0]
    /\ verdict = "none"

\* the service, serving requests that passed the limiter
Init == InitPipe /\ InitSanIdle /\ InitLimIdle

Next ==
    \/ InfoRequest
    \/ InfoResolve
    \/ DownloadRequest
    \/ DownloadResolve
    \/ DownloadMkdtemp
    \/ DownloadMaterialize
    \/ DownloadSend
    \/ Deliver
    \/ Teardown

Spec == Init /\ [][Next]_vars

\* sanitize_filename applied to each file name of FileNames
InitSanitize ==
    /\ InitPipe
    /\ InitLimIdle
    /\ fnIn \in FileNames
    /\ fnOut = <<>>
    /\ fnDone = FALSE

NextSanitize == Sanitize

SpecSanitize == InitSanitize /\ [][NextSanitize]_vars

\* the limiter in front of one route, called by one client
InitLimiter ==
    /\ InitPipe
    /\ InitSanIdle
    /\ now = 0
    /\ hits = [w \in Windows |-> [win |-> 0, n |-> 0]]
    /\ admitted \in {[route |-> r, n |-> 0] : r \in {"info", "download", "health"}}
    /\ verdict = "none"

NextLimiter == LimiterHit \/ Tick

SpecLimiter == InitLimiter /\ [][NextLimiter]_vars

\* ------------------------------------------------------------- the claims
\* the stream /download resolved, and what the claims say of it
Materializing ==
    pc \in {"dl_mkdtemp", "dl_download", "dl_send", "dl_deliver"} \/ tempDir # 0
AllowedContainer(st) ==
    st.mime # <<>> /\ st.mime[Len(st.mime)] \in {"mp4", "webm", "mp3", "wav"}
Oversize(st) == ~st.sizeErr /\ st.size # <<>> /\ st.size[1] > 100 * 1024 * 1024
Answered == resp.status # 0

\* C1: every request of /download that acquired a temporary directory has
\* released it when it has ended, on every path: once no request is being
\* served, no temporary directory exists.
C1_TempDirReleased == pc = "idle" => tempDirs = {}

\* C2, as stated: the download is reached only for a stream of an allowed
\* type whose size is unknown or at most 100 MiB; a stream of known size over
\* 100 MiB is answered 413 whatever its type, a stream of a type outside the
\* allow-list is answered 400 whatever its size, and neither acquires a
\* temporary directory.
C2_PolicyAsStated ==
    (route = "download" /\ res.found) =>
        /\ Materializing => AllowedContainer(res.stream) /\ ~Oversize(res.stream)
        /\ Oversize(res.stream) => resp.status = 413 /\ ~Materializing
        /\ ~AllowedContainer(res.stream) => resp.status = 400 /\ ~Materializing

\* C2, amended: the download is reached only for a stream of an allowed type
\* whose size is unknown or at most 100 MiB; a stream of known size over
\* 100 MiB is answered 413 whatever its type; a stream of a type outside the
\* allow-list is rejected whatever its size, with 400 when its size is
\* unknown or at most 100 MiB and with 413 when it is over 100 MiB; a
\* stream whose size cannot be read is answered 500; none of these acquires
\* a temporary directory.
C2_PolicyGate ==
    (route = "download" /\ res.found) =>
        /\ Materializing =>
              AllowedContainer(res.stream) /\ ~Oversize(res.stream) /\ ~res.stream.sizeErr
        /\ Oversize(res.stream) => resp.status = 413 /\ ~Materializing
        /\ (~AllowedContainer(res.stream) /\ ~Oversize(res.stream) /\ ~res.stream.sizeErr)
              => resp.status = 400 /\ ~Materializing
        /\ res.stream.sizeErr => resp.status = 500 /\ ~Materializing

\* C2: a stream over 100 MiB of a type outside the allow-list was answered 413
C2_Witness ==
    /\ route = "download" /\ res.found
    /\ Oversize(res.stream) /\ ~AllowedContainer(res.stream)
    /\ resp.status = 413 /\ tempDir = 0

\* the url member of the body is missing, not a string, blank, or not of a
\* recognized shape
UrlRejectable(b) ==
    \/ b.url = JAbsent
    \/ b.url.t # "str"
    \/ Strip(b.url.s) = <<>>
    \/ RegexEnds(Strip(b.url.s)) = {}

\* C3: on /info and /download a request whose url is missing, blank, not a
\* string or not of a recognized shape is answered 400 and the resolver is
\* not called for it; the resolver is only called with a url that passed
\* validate_youtube_url.
C3_InvalidUrl400 ==
    /\ (Answered /\ body.kind = "json" /\ body.data = "object" /\ UrlRejectable(body))
          => resp.status = 400 /\ calls = <<>>
    /\ \A i \in 1..Len(calls) : validate_youtube_url(JStr(calls[i].url))

PositiveInteger(v) == v.t = "int" /\ v.n > 0

\* C4: on /download a request with a valid url whose itag is not a positive
\* integer is answered 400 and the resolver is not called for it;
\* get_by_itag is only reached with a positive integer.
C4_ItagPositiveInt ==
    /\ (route = "download" /\ body.kind = "json" /\ body.data = "object"
           /\ ~UrlRejectable(body) /\ body.itag # JAbsent /\ ~PositiveInteger(body.itag))
          => calls = <<>> /\ (Answered => resp.status = 400)
    /\ \A i \in 1..Len(calls) : calls[i].fn = "get_by_itag" => PositiveInteger(calls[i].itag)

\* C5: on both routes a resolver failure "video unavailable" is answered 404,
\* RegexMatchError 400 and any other failure 500; on /download a stream id
\* the resolver does not find is answered 404.
C5_ResolverErrors ==
    /\ res.outcome = "VideoUnavailable" => resp.status = 404
    /\ res.outcome = "RegexMatchError" => resp.status = 400
    /\ res.outcome = "OtherError" => resp.status = 500
    /\ (route = "download" /\ res.outcome = "ok" /\ ~res.found) => resp.status = 404

\* the resolver answered /info with its streams and the video's attributes
InfoResolved ==
    /\ route = "info" /\ res.outcome = "ok" /\ ~res.attrsRaise
    /\ \A i \in 1..Len(res.streams) :
          AllowedContainer(res.streams[i]) => ~res.streams[i].sizeErr

\* C6: when the resolver answers /info, the formats returned are the streams
\* of an allowed container type, one entry each, in the resolver's order,
\* and none for another or a missing type; the response is 404 if and only
\* if there is no such stream, and 200 otherwise.
C6_InfoFormats ==
    InfoResolved =>
        LET q == SelectSeq(res.streams, AllowedContainer)
        IN  /\ resp.status = 404 <=> q = <<>>
            /\ q # <<>> => resp.status = 200
            /\ Len(resp.formats) = Len(q)
            /\ \A i \in 1..Len(q) :
                  /\ resp.formats[i].itag = q[i].itag
                  /\ resp.formats[i].type = q[i].mime[Len(q[i].mime)]
                  /\ resp.formats[i].filesize = q[i].size
                  /\ resp.formats[i].quality = (IF q[i].res = "" THEN "audio only" ELSE q[i].res)

\* C6: two streams were resolved and one of them was dropped
C6_Witness ==
    /\ InfoResolved /\ resp.status = 200
    /\ Len(res.streams) = 2 /\ Len(resp.formats) = 1
    /\ ~AllowedContainer(res.streams[1])

\* C8: a client under the per-minute caps of /info and /download is still
\* held to the default limit of 50 requests an hour: no more than 50 of its
\* requests to such a route are passed to the handler within one hour.
C8_DefaultsApply ==
    admitted.route \in {"info", "download"} => admitted.n <= 50

\* the length of the extension of a sanitized name f, its dot included: from
\* the last dot on, when a character other than a dot precedes it
ExtLen(f) ==
    LET dots == {d \in 1..Len(f) : f[d] = "." /\ \E k \in 1..(d - 1) : f[k] # "."}
        last == {d \in dots : \A k \in (d + 1)..Len(f) : f[k] # "."}
    IN  IF last = {} THEN 0 ELSE Len(f) - Max(last) + 1

Truncated(f) ==
    SubSeq(f, 1, Min({90, Len(f) - ExtLen(f)})) \o SubSeq(f, Len(f) - ExtLen(f) + 1, Len(f))

\* C9, as stated: the output of sanitize_filename has at most 100
\* characters, and when the replaced name has more than 100 it is the first
\* 90 characters of the base name followed by the extension.
C9_LengthAsStated ==
    fnDone =>
        /\ Len(fnOut) <= 100
        /\ Len(ReSub(fnIn)) > 100 => fnOut = Truncated(ReSub(fnIn))

\* C9, amended: when the replaced name has more than 100 characters the
\* output is the first 90 characters of the base name followed by the
\* extension, and otherwise the replaced name; the output has at most 100
\* characters whenever the extension, its dot included, has at most 10, and
\* at most 90 plus the length of the extension in any case where it is cut.
C9_SanitizeLength ==
    fnDone =>
        LET f == ReSub(fnIn)
        IN  /\ Len(f) > 100 => fnOut = Truncated(f) /\ Len(fnOut) <= 90 + ExtLen(f)
            /\ Len(f) <= 100 => fnOut = f
            /\ ExtLen(f) <= 10 => Len(fnOut) <= 100

\* C9: a name of more than 100 characters with an extension was cut to at
\* most 100
C9_Witness ==
    /\ fnDone /\ Len(ReSub(fnIn)) > 100
    /\ ExtLen(ReSub(fnIn)) > 1 /\ Len(fnOut) <= 100
    /\ \E i \in 1..Len(fnIn) : fnIn[i] \in UnsafeChars

\* the error messages written out in main.py, the three given to BadRequest
\* as str(e) renders them
BoundaryMessages ==
    {<<"Invalid YouTube URL">>, <<"Video is unavailable or private">>,
     <<"Invalid YouTube URL format">>, <<"Failed to access video">>,
     <<"Failed to retrieve video formats">>, <<"No downloadable formats available">>,
     <<"Internal server error">>, <<"Invalid itag parameter">>,
     <<"Requested format not available">>, <<"File too large for download">>,
     <<"File type not allowed">>, <<"Failed to download video">>,
     StrBadRequest("Request must be JSON"), StrBadRequest("Missing 'url' parameter"),
     StrBadRequest(MissingBoth)}

\* C10: the error message of every 400, 404, 413 and 500 response of /info
\* and /download is one of the fixed messages of main.py, never the text of
\* an exception, also for a body that is not JSON or does not parse.
C10_GenericMessages ==
    resp.status \in {400, 404, 413, 500} => resp.error \in BoundaryMessages

====
